---- MODULE Spec2Model ----
(***************************************************************************)
(* Yamma: the parse-node creator (batch parse of a theory on a worker      *)
(* thread or in the current thread) and the working-variable replacer for  *)
(* complete proofs.                                                        *)
(***************************************************************************)
EXTENDS Integers, Sequences, FiniteSets, TLC

VARIABLES
    \* ---- ParseNodesCreator ----
    labelToStatementMap,                \* mmParser.labelToStatementMap, one theory model per run
    areAllParseNodesComplete,           \* mmParser.areAllParseNodesComplete, per run
    workerPc,                           \* position of the worker thread block
    workerData,                         \* payload handed to new Worker(...)
    i,                                  \* loop counter of createLabelToParseNodeForThreadMap
    labelToParseNodeForThreadMap,       \* result map being built by the worker
    formulaToParseNodeForThreadCache,   \* cache of the batch
    parseCalls,                         \* formulas handed to LabeledStatement.parseString, in order
    port,                               \* messages posted by the worker, not yet delivered
    posted,                             \* every message posted by the worker, in order
    received,                           \* every message the 'message' handler has been run on
    promise,                            \* completion signal of createParseNodesInANewThread
    waiter,                             \* code awaiting the completion signal
    progressCalls,                      \* messages passed to progressCallback, per run
    returned,                           \* the synchronous call of the run has returned
    \* ---- WorkingVarReplacerForCompleteProof ----
    uProof,                             \* the proof the replacer was constructed with
    diagnostics,                        \* the diagnostics argument of the last call
    formulaToParseNodeCache,            \* the formula cache of the caller
    pass                                \* what the last call computed

parserVars == << labelToStatementMap, areAllParseNodesComplete, workerPc, workerData, i,
                 labelToParseNodeForThreadMap, formulaToParseNodeForThreadCache, parseCalls,
                 port, posted, received, promise, waiter, progressCalls, returned >>

replacerVars == << uProof, diagnostics, formulaToParseNodeCache, pass >>

vars == << parserVars, replacerVars >>

-----------------------------------------------------------------------------
(* Bounds *)

MaxStatements == 2

MaxSteps == 2

-----------------------------------------------------------------------------
(* Basic values *)

\* JavaScript's undefined
Undefined == [class |-> "undefined"]

Range(s) == { s[n] : n \in 1..Len(s) }

\* Body applied to value, value being evaluated once
LetIn(value, Body(_)) == CHOOSE r \in { Body(v) : v \in { value } } : TRUE

RECURSIVE SeqsUpTo(_, _)
\* all sequences over S of length at most n
SeqsUpTo(S, n) ==
    IF n = 0 THEN { << >> }
    ELSE LET shorter == SeqsUpTo(S, n - 1)
         IN  shorter \cup { Append(s, x) : s \in { t \in shorter : Len(t) = n - 1 }, x \in S }

\* ---- JavaScript Map: insertion ordered sequence of entries ----
MapKeys(m) == { m[n].key : n \in 1..Len(m) }

MapHas(m, k) == \E n \in 1..Len(m) : m[n].key = k

MapGet(m, k) ==
    IF MapHas(m, k) THEN m[CHOOSE n \in 1..Len(m) : m[n].key = k].value ELSE Undefined

MapSet(m, k, v) ==
    IF MapHas(m, k)
    THEN [ n \in 1..Len(m) |-> IF m[n].key = k THEN [key |-> k, value |-> v] ELSE m[n] ]
    ELSE Append(m, [key |-> k, value |-> v])

-----------------------------------------------------------------------------
(* Parse nodes *)

MmToken(value, line, column, type) ==
    [class |-> "MmToken", value |-> value, line |-> line, column |-> column, type |-> type]

InternalNode(label, kind, parseNodes) ==
    [class |-> "InternalNode", label |-> label, kind |-> kind, parseNodes |-> parseNodes]

dummyNode == InternalNode("dummy", "dummy", << >>)

-----------------------------------------------------------------------------
(* Grammar and single formula parsing *)

Lit(value) == [type |-> "literal", value |-> value]
Nt(name)   == [type |-> "nonterminal", value |-> name]

MmpRule(label, name, symbols) ==
    [class |-> "MmpRule", label |-> label, name |-> name, symbols |-> symbols]

\* mmParser.grammar.rules of the theories considered
TheoryRules ==
    << MmpRule("TOP", "provable", << Lit("|-"), Nt("wff") >>),
       MmpRule("wph", "wff", << Lit("ph") >>),
       MmpRule("wps", "wff", << Lit("ps") >>),
       MmpRule("wn",  "wff", << Lit("-."), Nt("wff") >>),
       MmpRule("wi",  "wff", << Lit("("), Nt("wff"), Lit("->"), Nt("wff"), Lit(")") >>) >>

\* GrammarManagerForThread.convertMmpRules: the serializable rule descriptors
convertMmpRules(mmpRules) ==
    [ n \in 1..Len(mmpRules) |->
        [label |-> mmpRules[n].label, kind |-> mmpRules[n].name, symbols |-> mmpRules[n].symbols] ]

\* GrammarManagerForThread.convertMmpRulesForThread: rules rebuilt from the descriptors
convertMmpRulesForThread(mmpRulesForThread) ==
    [ n \in 1..Len(mmpRulesForThread) |->
        MmpRule(mmpRulesForThread[n].label, mmpRulesForThread[n].kind, mmpRulesForThread[n].symbols) ]

\* new Grammar(mmpRules): the start symbol is the name of the first rule
Grammar(mmpRules) ==
    [rules |-> mmpRules, start |-> IF Len(mmpRules) = 0 THEN "" ELSE mmpRules[1].name]

createGrammar(mmpRulesForThread) ==
    Grammar(convertMmpRulesForThread(mmpRulesForThread))

Failed == [ok |-> FALSE, nodes |-> << >>, rest |-> << >>]

RECURSIVE ParseSymbols(_, _, _, _), ParseNonTerminal(_, _, _, _, _)
\* the children deriving a prefix of tokens from symbols, and the tokens left;
\* column is the position of tokens[1]
ParseSymbols(rules, symbols, tokens, column) ==
    IF Len(symbols) = 0
    THEN [ok |-> TRUE, nodes |-> << >>, rest |-> tokens]
    ELSE IF symbols[1].type = "literal"
    THEN IF Len(tokens) = 0 \/ Head(tokens) # symbols[1].value
         THEN Failed
         ELSE LetIn(ParseSymbols(rules, Tail(symbols), Tail(tokens), column + 1),
                    LAMBDA after :
                        IF after.ok
                        THEN [after EXCEPT !.nodes =
                                << MmToken(Head(tokens), 0, column, symbols[1].value) >> \o @]
                        ELSE Failed)
    ELSE LetIn(ParseNonTerminal(rules, 1, symbols[1].value, tokens, column),
               LAMBDA first :
                   IF ~ first.ok
                   THEN Failed
                   ELSE LetIn(ParseSymbols(rules, Tail(symbols), first.rest,
                                           column + Len(tokens) - Len(first.rest)),
                              LAMBDA after :
                                  IF after.ok THEN [after EXCEPT !.nodes = first.nodes \o @]
                                  ELSE Failed))

\* the node of the first rule for name, from rule n on, that derives a prefix of tokens
ParseNonTerminal(rules, n, name, tokens, column) ==
    IF n > Len(rules)
    THEN Failed
    ELSE IF rules[n].name # name
    THEN ParseNonTerminal(rules, n + 1, name, tokens, column)
    ELSE LetIn(ParseSymbols(rules, rules[n].symbols, tokens, column),
               LAMBDA children :
                   IF children.ok
                   THEN [ok |-> TRUE,
                         nodes |-> << InternalNode(rules[n].label, rules[n].name, children.nodes) >>,
                         rest |-> children.rest]
                   ELSE ParseNonTerminal(rules, n + 1, name, tokens, column))

\* LabeledStatement.parseString: parseResult.parseNode, Undefined on a syntax failure
parseString(formula, grammar) ==
    LetIn(ParseNonTerminal(grammar.rules, 1, grammar.start, formula, 0),
          LAMBDA parsed : IF parsed.ok /\ Len(parsed.rest) = 0 THEN parsed.nodes[1] ELSE Undefined)

\* concatWithSpaces: the formula text; tokens hold no blank, so the text is
\* determined by, and determines, its token sequence
concatWithSpaces(formula) == formula

-----------------------------------------------------------------------------
(* Conversion of parse nodes across the thread boundary *)

RECURSIVE structuredClone(_)
\* worker_threads postMessage: own fields are copied, the class is lost
structuredClone(node) ==
    IF "parseNodes" \in DOMAIN node
    THEN [label |-> node.label, kind |-> node.kind,
          parseNodes |-> [ n \in 1..Len(node.parseNodes) |-> structuredClone(node.parseNodes[n]) ]]
    ELSE [value |-> node.value, line |-> node.line, column |-> node.column, type |-> node.type]

RECURSIVE convertParseNodeForThread(_)
\* ParseNodeForThreadConverter.convertParseNodeForThread: rebuilds InternalNode / MmToken objects
convertParseNodeForThread(parseNodeForThread) ==
    IF "parseNodes" \in DOMAIN parseNodeForThread
    THEN InternalNode(parseNodeForThread.label, parseNodeForThread.kind,
                      [ n \in 1..Len(parseNodeForThread.parseNodes) |->
                          convertParseNodeForThread(parseNodeForThread.parseNodes[n]) ])
    ELSE MmToken(parseNodeForThread.value, parseNodeForThread.line,
                 parseNodeForThread.column, parseNodeForThread.type)

-----------------------------------------------------------------------------
(* Messages *)

createMessageProgress(index, count) == [kind |-> "progress", index |-> index, count |-> count]

createMessageLog(text) == [kind |-> "log", text |-> text]

createMessageDone(map) == [kind |-> "done", labelToParseNodeForThreadMap |-> map]

\* what the receiving side gets for a posted message
Serialized(message) ==
    IF message.kind = "done"
    THEN createMessageDone(
           [ n \in 1..Len(message.labelToParseNodeForThreadMap) |->
               [key |-> message.labelToParseNodeForThreadMap[n].key,
                value |-> structuredClone(message.labelToParseNodeForThreadMap[n].value)] ])
    ELSE message

-----------------------------------------------------------------------------
(* The theory *)

Runs == { "newThread", "currentThread", "simulated" }

LabelOf(n) == "s" \o ToString(n)

\* formula texts of the statements: two that parse (one of them shared by
\* many statements, as hypotheses are) and one that does not
Formulas ==
    { << "|-", "ph" >>,
      << "|-", "(", "ph", "->", "-.", "ps", ")" >>,
      << "|-", "(", "ph", "->" >> }

LabeledStatement(label, formula, isParsable, parseNode) ==
    [Label |-> label, formula |-> formula, isParsable |-> isParsable, parseNode |-> parseNode]

\* the theories considered: up to MaxStatements labeled statements
Theories ==
    UNION { { [ n \in 1..len |-> LabeledStatement(LabelOf(n), shape[n][1], shape[n][2], node) ] :
                shape \in [1..len -> Formulas \X BOOLEAN] } :
            len \in 0..MaxStatements, node \in { Undefined, dummyNode } }

\* MmParser.isParsable
isParsable(labeledStatement) == labeledStatement.isParsable

\* labeledStatement.setParseNode
setParseNode(labeledStatement, parseNode) == [labeledStatement EXCEPT !.parseNode = parseNode]

StatementIndex(statements, label) == { n \in 1..Len(statements) : statements[n].Label = label }

-----------------------------------------------------------------------------
(* createLabelToParseNodeForThreadMap *)

\* JavaScript null
Null == [class |-> "null"]

\* worker_threads.parentPort: null in the main thread, in a worker the port to
\* the parent thread, with the messages posted on it
parentPort(isMainThread) ==
    IF isMainThread THEN Null ELSE [class |-> "MessagePort", queue |-> << >>]

\* parentPort?.postMessage(message): the port after the call; nothing is
\* posted when there is no port
postMessage(port0, message) ==
    IF port0.class = "null" THEN port0
    ELSE [port0 EXCEPT !.queue = Append(@, message)]

RECURSIVE postMessages(_, _)
\* progressCallback = postMessage, called with each message in turn
postMessages(port0, messages) ==
    IF Len(messages) = 0 THEN port0
    ELSE postMessages(postMessage(port0, Head(messages)), Tail(messages))

\* mutant: the cache is looked up without regard to the formula
getParseNodeForThreadAnyCached(formula, grammar, cache) ==
    LET cached == IF Len(cache) > 0 THEN cache[1].value ELSE Undefined
    IN  IF cached = Undefined
        THEN LetIn(parseString(formula, grammar),
                   LAMBDA parseNode :
                       [parseNodeForThread |-> parseNode,
                        cache |-> IF parseNode # Undefined THEN MapSet(cache, formula, parseNode)
                                  ELSE cache,
                        parsed |-> << formula >>])
        ELSE [parseNodeForThread |-> cached, cache |-> cache, parsed |-> << >>]

\* mutant: the formula is parsed before the cache is looked at
getParseNodeForThreadParsingFirst(formula, grammar, cache) ==
    LET cached == MapGet(cache, formula)
    IN  LetIn(parseString(formula, grammar),
              LAMBDA parseNode :
                  IF cached = Undefined
                  THEN [parseNodeForThread |-> parseNode,
                        cache |-> IF parseNode # Undefined THEN MapSet(cache, formula, parseNode)
                                  ELSE cache,
                        parsed |-> << formula >>]
                  ELSE [parseNodeForThread |-> cached, cache |-> cache, parsed |-> << formula >>])

\* mutant: a parsed formula is not put in the cache
getParseNodeForThreadNoCache(formula, grammar, cache) ==
    LET cached == MapGet(cache, formula)
    IN  IF cached = Undefined
        THEN [parseNodeForThread |-> parseString(formula, grammar), cache |-> cache,
              parsed |-> << formula >>]
        ELSE [parseNodeForThread |-> cached, cache |-> cache, parsed |-> << >>]

\* returns the node, the cache after the call and the formulas handed to the parser
getParseNodeForThread(formula, grammar, cache) ==
    LET cached == MapGet(cache, formula)
    IN  IF cached = Undefined
        THEN LetIn(parseString(formula, grammar),
                   LAMBDA parseNode :
                       [parseNodeForThread |-> parseNode,
                        cache |-> IF parseNode # Undefined THEN MapSet(cache, formula, parseNode)
                                  ELSE cache,
                        parsed |-> << formula >>])
        ELSE [parseNodeForThread |-> cached, cache |-> cache, parsed |-> << >>]

\* state of one run of createLabelToParseNodeForThreadMap
BatchStart ==
    [i |-> 0, labelToParseNodeForThreadMap |-> << >>, formulaToParseNodeForThreadCache |-> << >>,
     parseCalls |-> << >>, out |-> << >>]

\* mutant: the index is incremented before it is reported
forEachFormulaPreIncrement(st, entry, size, grammar) ==
    LetIn(getParseNodeForThread(entry.value, grammar, st.formulaToParseNodeForThreadCache),
          LAMBDA got :
              [i |-> st.i + 1,
               labelToParseNodeForThreadMap |->
                  IF got.parseNodeForThread # Undefined
                  THEN MapSet(st.labelToParseNodeForThreadMap, entry.key, got.parseNodeForThread)
                  ELSE st.labelToParseNodeForThreadMap,
               formulaToParseNodeForThreadCache |-> got.cache,
               parseCalls |-> st.parseCalls \o got.parsed,
               out |-> Append(st.out, createMessageProgress(st.i + 1, size))])

\* one iteration of labelToFormulaMap.forEach; out collects the progressCallback calls
forEachFormula(st, entry, size, grammar) ==
    LetIn(getParseNodeForThread(entry.value, grammar, st.formulaToParseNodeForThreadCache),
          LAMBDA got :
              [i |-> st.i + 1,
               labelToParseNodeForThreadMap |->
                  IF got.parseNodeForThread # Undefined
                  THEN MapSet(st.labelToParseNodeForThreadMap, entry.key, got.parseNodeForThread)
                  ELSE st.labelToParseNodeForThreadMap,
               formulaToParseNodeForThreadCache |-> got.cache,
               parseCalls |-> st.parseCalls \o got.parsed,
               out |-> Append(st.out, createMessageProgress(st.i, size))])

logMapSize(st) ==
    createMessageLog("labelToParseNodeForThreadMap.size = " \o ToString(Len(st.labelToParseNodeForThreadMap)))

logCacheSize(st) ==
    createMessageLog("formulaToParseNodeForThreadCache.size = " \o ToString(Len(st.formulaToParseNodeForThreadCache)))

RECURSIVE forEachFrom(_, _, _, _)
forEachFrom(st, labelToFormulaMap, n, grammar) ==
    IF n > Len(labelToFormulaMap) THEN st
    ELSE LetIn(forEachFormula(st, labelToFormulaMap[n], Len(labelToFormulaMap), grammar),
               LAMBDA after : forEachFrom(after, labelToFormulaMap, n + 1, grammar))

\* the whole function: the final state, out holding every progressCallback call in order
createLabelToParseNodeForThreadMap(labelToFormulaMap, mmpRulesForThread) ==
    LetIn(forEachFrom(BatchStart, labelToFormulaMap, 1, createGrammar(mmpRulesForThread)),
          LAMBDA st : [st EXCEPT !.out = st.out \o << logMapSize(st), logCacheSize(st) >>])

-----------------------------------------------------------------------------
(* createParseNodesInANewThread, main thread side *)

RECURSIVE createLabelToFormulaMapFrom(_, _)
createLabelToFormulaMapFrom(statements, n) ==
    IF n = 0 THEN << >>
    ELSE LetIn(createLabelToFormulaMapFrom(statements, n - 1),
               LAMBDA before :
                   IF isParsable(statements[n])
                   THEN MapSet(before, statements[n].Label, concatWithSpaces(statements[n].formula))
                   ELSE before)

createLabelToFormulaMap(statements) == createLabelToFormulaMapFrom(statements, Len(statements))

RECURSIVE addParseNodesUntilMissingFrom(_, _, _)
addParseNodesUntilMissingFrom(map, statements, n) ==
    IF n > Len(map) THEN statements
    ELSE IF StatementIndex(statements, map[n].key) = {} THEN statements
    ELSE LetIn([ k \in 1..Len(statements) |->
                   IF statements[k].Label = map[n].key
                   THEN setParseNode(statements[k], convertParseNodeForThread(map[n].value))
                   ELSE statements[k] ],
               LAMBDA after : addParseNodesUntilMissingFrom(map, after, n + 1))

\* mutant: the merge is left at the first label that has no statement
addParseNodesUntilMissing(map, statements) == addParseNodesUntilMissingFrom(map, statements, 1)

RECURSIVE addParseNodesFrom(_, _, _)
addParseNodesFrom(map, statements, n) ==
    IF n = 0 THEN statements
    ELSE LetIn(addParseNodesFrom(map, statements, n - 1),
               LAMBDA before :
                   LET parseNode == convertParseNodeForThread(map[n].value)
                   IN  [ k \in 1..Len(before) |->
                           IF before[k].Label = map[n].key
                           THEN setParseNode(before[k], parseNode) ELSE before[k] ])

addParseNodes(map, statements) == addParseNodesFrom(map, statements, Len(map))

\* message.kind === 'done'
isDone(message) == message.kind = "done"

-----------------------------------------------------------------------------
(* Initial state *)

InitParserWith(theories) ==
    /\ \E theory \in theories : labelToStatementMap = [ r \in Runs |-> theory ]
    /\ areAllParseNodesComplete = [ r \in Runs |-> FALSE ]
    /\ workerPc = "notStarted"
    /\ workerData = Undefined
    /\ i = 0
    /\ labelToParseNodeForThreadMap = << >>
    /\ formulaToParseNodeForThreadCache = << >>
    /\ parseCalls = << >>
    /\ port = << >>
    /\ posted = << >>
    /\ received = << >>
    /\ promise = "none"
    /\ waiter = "none"
    /\ progressCalls = [ r \in Runs |-> << >> ]
    /\ returned = [ r \in { "currentThread", "simulated" } |-> FALSE ]

InitParser == InitParserWith(Theories)

\* no theory is loaded
ParserIdle == InitParserWith({ << >> })

-----------------------------------------------------------------------------
(* Actions of the parse node creator *)

\* createParseNodesInANewThread up to the return of the promise
CreateParseNodesInANewThread ==
    /\ promise = "none"
    /\ LET labelToFormulaMap == createLabelToFormulaMap(labelToStatementMap["newThread"])
           mmpRulesForThread == convertMmpRules(TheoryRules)
       IN  /\ progressCalls' = [progressCalls EXCEPT !["newThread"] =
                Append(@, createMessageLog("I am the Main thread!!!!!!!: labelToFormulaMap.size = "
                                           \o ToString(Len(labelToFormulaMap))))]
           /\ workerData' = [labelToFormulaMap |-> labelToFormulaMap,
                             mmpRulesForThread |-> mmpRulesForThread]
    /\ workerPc' = "logWorker"
    /\ promise' = "pending"
    /\ waiter' = "waiting"
    /\ UNCHANGED << replacerVars, labelToStatementMap, areAllParseNodesComplete, i, labelToParseNodeForThreadMap,
                    formulaToParseNodeForThreadCache, parseCalls, port, posted, received,
                    returned >>

\* what a port has been sent
Sent(port0) == IF port0.class = "null" THEN << >> ELSE port0.queue

\* the worker posts the messages of out, in order
Post(out) ==
    /\ port' = port \o [ n \in 1..Len(out) |-> Serialized(out[n]) ]
    /\ posted' = posted \o out

\* one postMessage of the worker thread, where isMainThread is false
PostOne(message) == Post(Sent(postMessage(parentPort(FALSE), message)))

WorkerLogWorker ==
    /\ workerPc = "logWorker"
    /\ PostOne(createMessageLog("I am the worker thread!!!!!!!!!"))
    /\ workerPc' = "logSize"
    /\ UNCHANGED << replacerVars, labelToStatementMap, areAllParseNodesComplete, workerData, i,
                    labelToParseNodeForThreadMap, formulaToParseNodeForThreadCache, parseCalls,
                    received, promise, waiter, progressCalls, returned >>

\* the second log, and the start of createLabelToParseNodeForThreadMap
WorkerLogSize ==
    /\ workerPc = "logSize"
    /\ PostOne(createMessageLog("Worker thread!!!!: labelToFormulaMap.size = "
                                                \o ToString(Len(workerData.labelToFormulaMap))))
    /\ workerPc' = "forEach"
    /\ i' = BatchStart.i
    /\ labelToParseNodeForThreadMap' = BatchStart.labelToParseNodeForThreadMap
    /\ formulaToParseNodeForThreadCache' = BatchStart.formulaToParseNodeForThreadCache
    /\ parseCalls' = BatchStart.parseCalls
    /\ UNCHANGED << replacerVars, labelToStatementMap, areAllParseNodesComplete, workerData,
                    received, promise, waiter, progressCalls, returned >>

WorkerBatch ==
    [i |-> i, labelToParseNodeForThreadMap |-> labelToParseNodeForThreadMap,
     formulaToParseNodeForThreadCache |-> formulaToParseNodeForThreadCache,
     parseCalls |-> parseCalls, out |-> << >>]

\* one iteration of the forEach of the batch
WorkerForEach ==
    /\ workerPc = "forEach"
    /\ i < Len(workerData.labelToFormulaMap)
    /\ \E st \in { forEachFormula(WorkerBatch, workerData.labelToFormulaMap[i + 1],
                                   Len(workerData.labelToFormulaMap),
                                   createGrammar(workerData.mmpRulesForThread)) } :
           /\ i' = st.i
           /\ labelToParseNodeForThreadMap' = st.labelToParseNodeForThreadMap
           /\ formulaToParseNodeForThreadCache' = st.formulaToParseNodeForThreadCache
           /\ parseCalls' = st.parseCalls
           /\ Post(Sent(postMessages(parentPort(FALSE), st.out)))
    /\ UNCHANGED << replacerVars, labelToStatementMap, areAllParseNodesComplete, workerPc, workerData,
                    received, promise, waiter, progressCalls, returned >>

WorkerLogMapSize ==
    /\ workerPc = "forEach"
    /\ i >= Len(workerData.labelToFormulaMap)
    /\ PostOne(logMapSize(WorkerBatch))
    /\ workerPc' = "logCacheSize"
    /\ UNCHANGED << replacerVars, labelToStatementMap, areAllParseNodesComplete, workerData, i,
                    labelToParseNodeForThreadMap, formulaToParseNodeForThreadCache, parseCalls,
                    received, promise, waiter, progressCalls, returned >>

\* mutant: the Done message is posted before the last log
WorkerLogCacheSizeDoneFirst ==
    /\ workerPc = "logCacheSize"
    /\ Post(<< createMessageDone(labelToParseNodeForThreadMap), logCacheSize(WorkerBatch) >>)
    /\ workerPc' = "exited"
    /\ UNCHANGED << replacerVars, labelToStatementMap, areAllParseNodesComplete, workerData, i,
                    labelToParseNodeForThreadMap, formulaToParseNodeForThreadCache, parseCalls,
                    received, promise, waiter, progressCalls, returned >>

WorkerLogCacheSize ==
    /\ workerPc = "logCacheSize"
    /\ PostOne(logCacheSize(WorkerBatch))
    /\ workerPc' = "postDone"
    /\ UNCHANGED << replacerVars, labelToStatementMap, areAllParseNodesComplete, workerData, i,
                    labelToParseNodeForThreadMap, formulaToParseNodeForThreadCache, parseCalls,
                    received, promise, waiter, progressCalls, returned >>

WorkerPostDone ==
    /\ workerPc = "postDone"
    /\ PostOne(createMessageDone(labelToParseNodeForThreadMap))
    /\ workerPc' = "exited"
    /\ UNCHANGED << replacerVars, labelToStatementMap, areAllParseNodesComplete, workerData, i,
                    labelToParseNodeForThreadMap, formulaToParseNodeForThreadCache, parseCalls,
                    received, promise, waiter, progressCalls, returned >>

Worker ==
    \/ WorkerLogWorker
    \/ WorkerLogSize
    \/ WorkerForEach
    \/ WorkerLogMapSize
    \/ WorkerLogCacheSize
    \/ WorkerPostDone

\* mutant: the handler merges the result and sets the flag, but never calls resolve
OnMessageDoneNoResolve ==
    /\ Len(port) > 0
    /\ Head(port).kind = "done"
    /\ port' = Tail(port)
    /\ received' = Append(received, Head(port))
    /\ progressCalls' = [progressCalls EXCEPT !["newThread"] =
                            Append(@, createMessageLog("I am back to the Main thread!!!!!!!"))]
    /\ labelToStatementMap' = [labelToStatementMap EXCEPT !["newThread"] =
                            addParseNodes(Head(port).labelToParseNodeForThreadMap, @)]
    /\ areAllParseNodesComplete' = [areAllParseNodesComplete EXCEPT !["newThread"] = TRUE]
    /\ UNCHANGED << replacerVars, workerPc, workerData, i, labelToParseNodeForThreadMap,
                    formulaToParseNodeForThreadCache, parseCalls, posted, promise, waiter,
                    returned >>

\* mutant: the Done message is passed to the progress callback too
OnMessageDoneAlsoForwarded ==
    /\ Len(port) > 0
    /\ isDone(Head(port))
    /\ port' = Tail(port)
    /\ received' = Append(received, Head(port))
    /\ progressCalls' = [progressCalls EXCEPT !["newThread"] =
                            @ \o << createMessageLog("I am back to the Main thread!!!!!!!"), Head(port) >>]
    /\ labelToStatementMap' = [labelToStatementMap EXCEPT !["newThread"] =
                            addParseNodes(Head(port).labelToParseNodeForThreadMap, @)]
    /\ promise' = "resolved"
    /\ areAllParseNodesComplete' = [areAllParseNodesComplete EXCEPT !["newThread"] = TRUE]
    /\ UNCHANGED << replacerVars, workerPc, workerData, i, labelToParseNodeForThreadMap,
                    formulaToParseNodeForThreadCache, parseCalls, posted, waiter,
                    returned >>

\* mutant: the flag is not set
OnMessageDoneFlagNotSet ==
    /\ Len(port) > 0
    /\ isDone(Head(port))
    /\ port' = Tail(port)
    /\ received' = Append(received, Head(port))
    /\ progressCalls' = [progressCalls EXCEPT !["newThread"] =
                            Append(@, createMessageLog("I am back to the Main thread!!!!!!!"))]
    /\ labelToStatementMap' = [labelToStatementMap EXCEPT !["newThread"] =
                            addParseNodes(Head(port).labelToParseNodeForThreadMap, @)]
    /\ promise' = "resolved"
    /\ UNCHANGED << replacerVars, areAllParseNodesComplete, workerPc, workerData, i, labelToParseNodeForThreadMap,
                    formulaToParseNodeForThreadCache, parseCalls, posted, waiter,
                    returned >>

\* worker.on('message', ...) run on a 'done' message
OnMessageDone ==
    /\ Len(port) > 0
    /\ isDone(Head(port))
    /\ port' = Tail(port)
    /\ received' = Append(received, Head(port))
    /\ progressCalls' = [progressCalls EXCEPT !["newThread"] =
                            Append(@, createMessageLog("I am back to the Main thread!!!!!!!"))]
    /\ labelToStatementMap' = [labelToStatementMap EXCEPT !["newThread"] =
                            addParseNodes(Head(port).labelToParseNodeForThreadMap, @)]
    /\ promise' = "resolved"
    /\ areAllParseNodesComplete' = [areAllParseNodesComplete EXCEPT !["newThread"] = TRUE]
    /\ UNCHANGED << replacerVars, workerPc, workerData, i, labelToParseNodeForThreadMap,
                    formulaToParseNodeForThreadCache, parseCalls, posted, waiter,
                    returned >>

\* mutant: any message resolves the promise
OnMessageOtherResolving ==
    /\ Len(port) > 0
    /\ Head(port).kind # "done"
    /\ port' = Tail(port)
    /\ received' = Append(received, Head(port))
    /\ progressCalls' = [progressCalls EXCEPT !["newThread"] = Append(@, Head(port))]
    /\ promise' = "resolved"
    /\ UNCHANGED << replacerVars, labelToStatementMap, areAllParseNodesComplete, workerPc, workerData, i,
                    labelToParseNodeForThreadMap, formulaToParseNodeForThreadCache, parseCalls,
                    posted, waiter, returned >>

\* worker.on('message', ...) run on any other message
OnMessageOther ==
    /\ Len(port) > 0
    /\ ~ isDone(Head(port))
    /\ port' = Tail(port)
    /\ received' = Append(received, Head(port))
    /\ progressCalls' = [progressCalls EXCEPT !["newThread"] = Append(@, Head(port))]
    /\ UNCHANGED << replacerVars, labelToStatementMap, areAllParseNodesComplete, workerPc, workerData, i,
                    labelToParseNodeForThreadMap, formulaToParseNodeForThreadCache, parseCalls,
                    posted, promise, waiter, returned >>

OnMessage == OnMessageDone \/ OnMessageOther

\* the continuation of the code that awaits the promise
AwaitResumes ==
    /\ promise = "resolved"
    /\ waiter = "waiting"
    /\ waiter' = "released"
    /\ UNCHANGED << replacerVars, labelToStatementMap, areAllParseNodesComplete, workerPc, workerData, i,
                    labelToParseNodeForThreadMap, formulaToParseNodeForThreadCache, parseCalls,
                    port, posted, received, promise, progressCalls, returned >>

\* createParseNodesInCurrentThread, the whole call
CreateParseNodesInCurrentThread ==
    /\ ~ returned["currentThread"]
    /\ \E batch \in { createLabelToParseNodeForThreadMap(
                            createLabelToFormulaMap(labelToStatementMap["currentThread"]),
                            convertMmpRules(TheoryRules)) } :
           progressCalls' = [progressCalls EXCEPT !["currentThread"] = @ \o batch.out]
    /\ areAllParseNodesComplete' = [areAllParseNodesComplete EXCEPT !["currentThread"] = TRUE]
    /\ returned' = [returned EXCEPT !["currentThread"] = TRUE]
    /\ UNCHANGED << replacerVars, labelToStatementMap, workerPc, workerData, i, labelToParseNodeForThreadMap,
                    formulaToParseNodeForThreadCache, parseCalls, port, posted, received,
                    promise, waiter >>

\* buildParseNodesSimulated of the tests: the batch and the merge, without a worker
BuildParseNodesSimulated ==
    /\ ~ returned["simulated"]
    /\ \E batch \in { createLabelToParseNodeForThreadMap(
                            createLabelToFormulaMap(labelToStatementMap["simulated"]),
                            convertMmpRules(TheoryRules)) } :
           /\ progressCalls' = [progressCalls EXCEPT !["simulated"] = @ \o batch.out]
           /\ labelToStatementMap' = [labelToStatementMap EXCEPT !["simulated"] =
                                        addParseNodes(batch.labelToParseNodeForThreadMap, @)]
    /\ returned' = [returned EXCEPT !["simulated"] = TRUE]
    /\ UNCHANGED << replacerVars, areAllParseNodesComplete, workerPc, workerData, i, labelToParseNodeForThreadMap,
                    formulaToParseNodeForThreadCache, parseCalls, port, posted, received,
                    promise, waiter >>

-----------------------------------------------------------------------------
(* The proof and the theory seen by WorkingVarReplacerForCompleteProof *)

\* a string value, where the code has string | undefined
String(value) == [class |-> "string", value |-> value]

\* uProof.workingVars: the kind registered for every working variable
WorkingVarKinds ==
    << [key |-> "&W1", value |-> "wff"],
       [key |-> "&W2", value |-> "wff"],
       [key |-> "&S1", value |-> "setvar"] >>

\* the floating hypotheses of the theory variables
FHyp(label, kind) == [Label |-> label, Kind |-> kind]

TheoryFHyps ==
    << [key |-> "ph", value |-> FHyp("wph", "wff")],
       [key |-> "ps", value |-> FHyp("wps", "wff")],
       [key |-> "x",  value |-> FHyp("vx", "setvar")] >>

\* the grammar of proof formulas: the rules of the theory, quantification,
\* the setvar variable and the working variables
ProofRules ==
    TheoryRules \o
    << MmpRule("wal", "wff", << Lit("A."), Nt("setvar"), Nt("wff") >>),
       MmpRule("vx", "setvar", << Lit("x") >>),
       MmpRule("wff_workvar", "wff", << Lit("&W1") >>),
       MmpRule("wff_workvar", "wff", << Lit("&W2") >>),
       MmpRule("setvar_workvar", "setvar", << Lit("&S1") >>) >>

\* declaration orders of outermostBlock.v considered
DeclaredVars ==
    { << "ph", "ps", "x" >>, << "ps", "ph", "x" >>, << "x", "ph" >>, << "ps" >>, << >> }

OutermostBlock(v) ==
    [v |-> v, varToFHypMap |-> SelectSeq(TheoryFHyps, LAMBDA e : e.key \in Range(v))]

\* outermostBlock.kindOf: the kind given by the floating hypothesis of the variable
kindOf(outermostBlock, variable) ==
    IF MapHas(outermostBlock.varToFHypMap, variable)
    THEN MapGet(outermostBlock.varToFHypMap, variable).Kind
    ELSE "undefined"

\* formulas of the proof steps considered
StepFormulas ==
    { << "|-", "&W1" >>,
      << "|-", "&W2" >>,
      << "|-", "(", "&W1", "->", "&W2", ")" >>,
      << "|-", "(", "&W1", "->", "&W1", ")" >>,
      << "|-", "(", "ph", "->", "&W1", ")" >>,
      << "|-", "(", "ph", "->", "ps", ")" >>,
      << "|-", "A.", "&S1", "&W1" >>,
      << "|-", "A.", "x", "&W2" >> }

RECURSIVE AtLine(_, _)
\* the parse node with its tokens placed on the given line
AtLine(node, line) ==
    IF node.class = "MmToken"
    THEN [node EXCEPT !.line = line]
    ELSE [node EXCEPT !.parseNodes = [ n \in 1..Len(node.parseNodes) |-> AtLine(node.parseNodes[n], line) ]]

MmpProofStep(parseNode) == [class |-> "MmpProofStep", parseNode |-> parseNode]

MmpComment == [class |-> "MmpComment"]

\* the statements a proof may hold at a line: a comment, a step that has no
\* parse node, or a step with the parse node of its formula
StatementsAt(line) ==
    { MmpComment, MmpProofStep(Undefined) }
        \cup { MmpProofStep(AtLine(parseString(f, Grammar(ProofRules)), line)) : f \in StepFormulas }

RECURSIVE ProofsOfLength(_)
ProofsOfLength(len) ==
    IF len = 0 THEN { << >> }
    ELSE { Append(proof, statement) : proof \in ProofsOfLength(len - 1), statement \in StatementsAt(len) }

\* the proofs considered: up to MaxSteps statements
Proofs == UNION { ProofsOfLength(len) : len \in 0..MaxSteps }

-----------------------------------------------------------------------------
(* WorkingVarReplacerForCompleteProof *)

\* GrammarManager.isInternalParseNodeForWorkingVar
isInternalParseNodeForWorkingVar(parseNode) ==
    /\ parseNode.class = "InternalNode"
    /\ Len(parseNode.parseNodes) = 1
    /\ parseNode.parseNodes[1].class = "MmToken"
    /\ MapHas(WorkingVarKinds, parseNode.parseNodes[1].value)

\* GrammarManager.getTokenFromInternalNode
getTokenFromInternalNode(internalNode) == internalNode.parseNodes[1]

\* GrammarManager.getTokenValueFromInternalNode
getTokenValueFromInternalNode(internalNode) == internalNode.parseNodes[1].value

\* mmToken.range: from the first character of the token to the one after its last
range(mmToken) ==
    [start |-> [line |-> mmToken.line, character |-> mmToken.column],
     end |-> [line |-> mmToken.line, character |-> mmToken.column + Len(mmToken.value)]]

\* the occurrence is appended to the list of its working variable
addOccurrence(workingVars, child) ==
    LET workingVar == getTokenValueFromInternalNode(child)
    IN  IF MapHas(workingVars, workingVar)
        THEN MapSet(workingVars, workingVar, Append(MapGet(workingVars, workingVar), child))
        ELSE MapSet(workingVars, workingVar, << child >>)

RECURSIVE gatherWorkingVars(_, _), gatherWorkingVarsFrom(_, _, _)
\* parseNode.parseNodes.forEach from child n on
gatherWorkingVarsFrom(parseNodes, n, workingVars) ==
    IF n > Len(parseNodes) THEN workingVars
    ELSE LetIn(IF isInternalParseNodeForWorkingVar(parseNodes[n])
               THEN addOccurrence(workingVars, parseNodes[n])
               ELSE IF parseNodes[n].class = "InternalNode"
               THEN gatherWorkingVars(parseNodes[n], workingVars)
               ELSE workingVars,
               LAMBDA after : gatherWorkingVarsFrom(parseNodes, n + 1, after))

gatherWorkingVars(parseNode, workingVars) ==
    gatherWorkingVarsFrom(parseNode.parseNodes, 1, workingVars)

RECURSIVE getWorkingVarsFrom(_, _, _)
getWorkingVarsFrom(mmpStatements, n, workingVars) ==
    IF n > Len(mmpStatements) THEN workingVars
    ELSE LetIn(IF /\ mmpStatements[n].class = "MmpProofStep"
                  /\ mmpStatements[n].parseNode # Undefined
               THEN gatherWorkingVars(mmpStatements[n].parseNode, workingVars)
               ELSE workingVars,
               LAMBDA after : getWorkingVarsFrom(mmpStatements, n + 1, after))

getWorkingVars(proof) == getWorkingVarsFrom(proof.mmpStatements, 1, << >>)

RECURSIVE symbolsSubsetOf(_, _)
\* InternalNode.symbolsSubsetOf: the symbols of the tree that belong to the set
symbolsSubsetOf(parseNode, symbols) ==
    IF parseNode.class = "MmToken"
    THEN { parseNode.value } \cap symbols
    ELSE UNION { symbolsSubsetOf(parseNode.parseNodes[n], symbols) : n \in 1..Len(parseNode.parseNodes) }

\* mutant: the variables of the steps are not added to the used variables
getVarsPresentInProofNotAdded(proof) ==
    UNION { {} : n \in { k \in 1..Len(proof.mmpStatements) :
                           /\ proof.mmpStatements[k].class = "MmpProofStep"
                           /\ proof.mmpStatements[k].parseNode # Undefined } }

\* mutant: only the first statement of the proof is looked at
getVarsPresentInFirstStatement(proof) ==
    UNION { symbolsSubsetOf(proof.mmpStatements[n].parseNode, Range(proof.outermostBlock.v)) :
              n \in { k \in 1..Len(proof.mmpStatements) :
                        /\ k = 1
                        /\ proof.mmpStatements[k].class = "MmpProofStep"
                        /\ proof.mmpStatements[k].parseNode # Undefined } }

getVarsPresentInProof(proof) ==
    UNION { symbolsSubsetOf(proof.mmpStatements[n].parseNode, Range(proof.outermostBlock.v)) :
              n \in { k \in 1..Len(proof.mmpStatements) :
                        /\ proof.mmpStatements[k].class = "MmpProofStep"
                        /\ proof.mmpStatements[k].parseNode # Undefined } }

\* mutant: the first variable, of whatever kind, that is not used
findUnusedVarOfAnyKind(proof, kind, usedVars) ==
    LET variables == proof.outermostBlock.v
        unused == { n \in 1..Len(variables) : variables[n] \notin usedVars }
    IN  IF unused = {} THEN Undefined
        ELSE String(variables[CHOOSE n \in unused : \A k \in unused : n <= k])

\* mutant: the last variable of the kind, in declaration order, that is not used
findUnusedVarLast(proof, kind, usedVars) ==
    LET variables == proof.outermostBlock.v
        unused == { n \in 1..Len(variables) :
                      /\ kindOf(proof.outermostBlock, variables[n]) = kind
                      /\ variables[n] \notin usedVars }
    IN  IF unused = {} THEN Undefined
        ELSE String(variables[CHOOSE n \in unused : \A k \in unused : n >= k])

\* the first variable of the kind, in declaration order, that is not used
findUnusedVar(proof, kind, usedVars) ==
    LET variables == proof.outermostBlock.v
        unused == { n \in 1..Len(variables) :
                      /\ kindOf(proof.outermostBlock, variables[n]) = kind
                      /\ variables[n] \notin usedVars }
    IN  IF unused = {} THEN Undefined
        ELSE String(variables[CHOOSE n \in unused : \A k \in unused : n <= k])

\* mutant: the node is labelled with the kind, not with the label of the floating hypothesis
createReplacementNodeKindAsLabel(proof, unusedVar, kind) ==
    IF MapHas(proof.outermostBlock.varToFHypMap, unusedVar)
    THEN InternalNode(kind, kind, << MmToken(unusedVar, 0, 0, kind) >>)
    ELSE Undefined

\* mutant: the floating hypothesis is looked up by the kind, not by the variable
createReplacementNodeByKind(proof, unusedVar, kind) ==
    IF MapHas(proof.outermostBlock.varToFHypMap, kind)
    THEN LET fHyp == MapGet(proof.outermostBlock.varToFHypMap, kind)
         IN  InternalNode(fHyp.Label, fHyp.Kind, << MmToken(unusedVar, 0, 0, kind) >>)
    ELSE Undefined

createReplacementNode(proof, unusedVar, kind) ==
    IF MapHas(proof.outermostBlock.varToFHypMap, unusedVar)
    THEN LET fHyp == MapGet(proof.outermostBlock.varToFHypMap, unusedVar)
         IN  InternalNode(fHyp.Label, fHyp.Kind, << MmToken(unusedVar, 0, 0, kind) >>)
    ELSE Undefined

\* MmpValidator.addDiagnosticWarning
addDiagnosticWarning(message, where, code, list) ==
    Append(list, [severity |-> "Warning", message |-> message, range |-> where, code |-> code])

RECURSIVE addDiagnosticsForOccurrencesFrom(_, _, _, _)
\* internalNodes.forEach of buildUnifier, from occurrence n on
addDiagnosticsForOccurrencesFrom(internalNodes, n, kind, list) ==
    IF n > Len(internalNodes) THEN list
    ELSE LetIn(addDiagnosticWarning("No unused variable of kind " \o kind \o " found in the theory",
                                    range(getTokenFromInternalNode(internalNodes[n])),
                                    "proofCompleteButWorkingVarsRemainAndNoUnusedTheoryVars",
                                    list),
               LAMBDA after : addDiagnosticsForOccurrencesFrom(internalNodes, n + 1, kind, after))

\* internalNodes.forEach of buildUnifier: one warning for every occurrence
addDiagnosticsForOccurrences(internalNodes, kind, list) ==
    addDiagnosticsForOccurrencesFrom(internalNodes, 1, kind, list)

\* mutant: a chosen variable is not added to the used variables
buildUnifierForEachNoReserve(proof, st, entry) ==
    LET kind == MapGet(proof.workingVars, entry.key)
        unusedVar == findUnusedVar(proof, kind, st.usedVars)
    IN  IF unusedVar = Undefined
        THEN IF st.diagnostics.supplied
             THEN [st EXCEPT !.diagnostics.list = addDiagnosticsForOccurrences(entry.value, kind, @)]
             ELSE st
        ELSE LET replacementNode == createReplacementNode(proof, unusedVar.value, kind)
             IN  IF replacementNode # Undefined
                 THEN [st EXCEPT !.unifier = MapSet(@, entry.key, replacementNode)]
                 ELSE st

\* mutant: one warning for every unallocable working variable, at its first occurrence
buildUnifierForEachOneDiagnostic(proof, st, entry) ==
    LET kind == MapGet(proof.workingVars, entry.key)
        unusedVar == findUnusedVar(proof, kind, st.usedVars)
    IN  IF unusedVar = Undefined
        THEN IF st.diagnostics.supplied
             THEN [st EXCEPT !.diagnostics.list =
                      addDiagnosticsForOccurrences(<< entry.value[1] >>, kind, @)]
             ELSE st
        ELSE LET replacementNode == createReplacementNode(proof, unusedVar.value, kind)
             IN  IF replacementNode # Undefined
                 THEN [st EXCEPT !.unifier = MapSet(@, entry.key, replacementNode),
                                 !.usedVars = @ \cup { unusedVar.value }]
                 ELSE st

\* the body of workingVars.forEach of buildUnifier; st holds the unifier, the
\* used variables and the diagnostics
buildUnifierForEach(proof, st, entry) ==
    LET kind == MapGet(proof.workingVars, entry.key)
        unusedVar == findUnusedVar(proof, kind, st.usedVars)
    IN  IF unusedVar = Undefined
        THEN IF st.diagnostics.supplied
             THEN [st EXCEPT !.diagnostics.list = addDiagnosticsForOccurrences(entry.value, kind, @)]
             ELSE st
        ELSE LET replacementNode == createReplacementNode(proof, unusedVar.value, kind)
             IN  IF replacementNode # Undefined
                 THEN [st EXCEPT !.unifier = MapSet(@, entry.key, replacementNode),
                                 !.usedVars = @ \cup { unusedVar.value }]
                 ELSE st

RECURSIVE buildUnifierFromUntilFailure(_, _, _, _)
\* mutant: the loop is left at the first working variable that gets no entry
buildUnifierFromUntilFailure(proof, workingVars, n, st) ==
    IF n > Len(workingVars) THEN st
    ELSE LetIn(buildUnifierForEach(proof, st, workingVars[n]),
               LAMBDA after : IF MapHas(after.unifier, workingVars[n].key)
                              THEN buildUnifierFromUntilFailure(proof, workingVars, n + 1, after)
                              ELSE after)

RECURSIVE buildUnifierFrom(_, _, _, _)
\* workingVars.forEach of buildUnifier, from entry n on
buildUnifierFrom(proof, workingVars, n, st) ==
    IF n > Len(workingVars) THEN st
    ELSE LetIn(buildUnifierForEach(proof, st, workingVars[n]),
               LAMBDA after : buildUnifierFrom(proof, workingVars, n + 1, after))

\* returns the unifier, with the used variables and the diagnostics as updated in place
buildUnifier(proof, workingVars, usedVars, diagnosticsArg) ==
    buildUnifierFrom(proof, workingVars, 1,
                     [unifier |-> << >>, usedVars |-> usedVars, diagnostics |-> diagnosticsArg])

RECURSIVE Substituted(_, _)
\* the parse node with the working variables of the unifier replaced
Substituted(parseNode, unifier) ==
    IF parseNode.class = "MmToken" THEN parseNode
    ELSE IF /\ isInternalParseNodeForWorkingVar(parseNode)
            /\ MapHas(unifier, getTokenValueFromInternalNode(parseNode))
    THEN MapGet(unifier, getTokenValueFromInternalNode(parseNode))
    ELSE [parseNode EXCEPT !.parseNodes =
            [ n \in 1..Len(parseNode.parseNodes) |-> Substituted(parseNode.parseNodes[n], unifier) ]]

RECURSIVE Tokens(_)
\* the token values of a parse node, left to right
Tokens(parseNode) ==
    IF parseNode.class = "MmToken" THEN << parseNode.value >>
    ELSE IF Len(parseNode.parseNodes) = 0 THEN << >>
    ELSE Tokens(parseNode.parseNodes[1])
            \o Tokens([parseNode EXCEPT !.parseNodes = Tail(parseNode.parseNodes)])

RECURSIVE CachedFrom(_, _, _)
CachedFrom(mmpStatements, n, cache) ==
    IF n > Len(mmpStatements) THEN cache
    ELSE LetIn(IF /\ mmpStatements[n].class = "MmpProofStep"
                  /\ mmpStatements[n].parseNode # Undefined
               THEN MapSet(cache, Tokens(mmpStatements[n].parseNode), mmpStatements[n].parseNode)
               ELSE cache,
               LAMBDA after : CachedFrom(mmpStatements, n + 1, after))

\* WorkingVarsUnifierApplier.applyUnifier: the substitution is committed to the
\* steps of the proof, and the rewritten formulas are put in the cache, if one is given
WorkingVarsUnifierApplier(unifier, proof, cacheArg) ==
    LET mmpStatements ==
            [ n \in 1..Len(proof.mmpStatements) |->
                IF /\ proof.mmpStatements[n].class = "MmpProofStep"
                   /\ proof.mmpStatements[n].parseNode # Undefined
                THEN MmpProofStep(Substituted(proof.mmpStatements[n].parseNode, unifier))
                ELSE proof.mmpStatements[n] ]
    IN  [uProof |-> [proof EXCEPT !.mmpStatements = mmpStatements],
         formulaToParseNodeCache |->
            IF cacheArg.supplied THEN CachedFrom(mmpStatements, 1, cacheArg.map) ELSE << >>,
         applierCalls |-> 1]

\* no WorkingVarsUnifierApplier is made: the proof and the cache stay as they are
NotApplied(proof, cacheArg) ==
    [uProof |-> proof,
     formulaToParseNodeCache |-> IF cacheArg.supplied THEN cacheArg.map ELSE << >>,
     applierCalls |-> 0]

\* mutant: the applier is made and run for an empty unifier too
applyUnifierWhateverSize(unifier, proof, cacheArg) ==
    WorkingVarsUnifierApplier(unifier, proof, cacheArg)

applyUnifier(unifier, proof, cacheArg) ==
    IF Len(unifier) > 0
    THEN WorkingVarsUnifierApplier(unifier, proof, cacheArg)
    ELSE NotApplied(proof, cacheArg)

\* the arguments a caller may pass for the optional parameters
Optional(values) == { [supplied |-> FALSE] } \cup { [supplied |-> TRUE, list |-> l] : l \in values }

\* the optional cache argument: the cache of the caller, or nothing
OptionalCache == { [supplied |-> FALSE], [supplied |-> TRUE, map |-> formulaToParseNodeCache] }

\* a diagnostic another validation has already put in the list
OtherDiagnostic ==
    [severity |-> "Error", message |-> "Unknown label",
     range |-> [start |-> [line |-> 1, character |-> 0], end |-> [line |-> 1, character |-> 2]],
     code |-> "unknownLabel"]

DiagnosticLists == { << >>, << OtherDiagnostic >> }

NoPass ==
    [entryPoint |-> "none", before |-> << >>, diagnosticsBefore |-> [supplied |-> FALSE],
     workingVars |-> << >>, usedVarsBefore |-> {}, usedVars |-> {}, unifier |-> << >>,
     applierCalls |-> 0]

ReplacerIdle ==
    /\ uProof = [mmpStatements |-> << >>, outermostBlock |-> OutermostBlock(<< >>),
                 workingVars |-> WorkingVarKinds]
    /\ diagnostics = [supplied |-> FALSE]
    /\ formulaToParseNodeCache = << >>
    /\ pass = NoPass

\* new WorkingVarReplacerForCompleteProof(uProof)
InitReplacer ==
    /\ ParserIdle
    /\ \E mmpStatements \in Proofs, v \in DeclaredVars :
          uProof = [mmpStatements |-> mmpStatements, outermostBlock |-> OutermostBlock(v),
                    workingVars |-> WorkingVarKinds]
    /\ diagnostics = [supplied |-> FALSE]
    /\ formulaToParseNodeCache = << >>
    /\ pass = NoPass

\* what one call computes: the working variables, the used variables, the unifier
PassOf(entryPoint, proof, diagnosticsArg) ==
    LetIn(getWorkingVars(proof),
          LAMBDA workingVars :
              IF Len(workingVars) > 0
              THEN LetIn(buildUnifier(proof, workingVars, getVarsPresentInProof(proof), diagnosticsArg),
                         LAMBDA built :
                             [entryPoint |-> entryPoint, before |-> proof.mmpStatements,
                              diagnosticsBefore |-> diagnosticsArg, workingVars |-> workingVars,
                              usedVarsBefore |-> getVarsPresentInProof(proof),
                              usedVars |-> built.usedVars, unifier |-> built.unifier,
                              diagnostics |-> built.diagnostics])
              ELSE [entryPoint |-> entryPoint, before |-> proof.mmpStatements,
                    diagnosticsBefore |-> diagnosticsArg, workingVars |-> workingVars,
                    usedVarsBefore |-> {}, usedVars |-> {}, unifier |-> << >>,
                    diagnostics |-> diagnosticsArg])

Recorded(computed, applierCalls) ==
    [entryPoint |-> computed.entryPoint, before |-> computed.before,
     diagnosticsBefore |-> computed.diagnosticsBefore, workingVars |-> computed.workingVars,
     usedVarsBefore |-> computed.usedVarsBefore, usedVars |-> computed.usedVars,
     unifier |-> computed.unifier, applierCalls |-> applierCalls]

\* the state a call of replaceWorkingVarsWithTheoryVars leaves
Replaced(computed, applied, cacheArg) ==
    /\ uProof' = applied.uProof
    /\ formulaToParseNodeCache' =
          IF cacheArg.supplied THEN applied.formulaToParseNodeCache
          ELSE formulaToParseNodeCache
    /\ diagnostics' = computed.diagnostics
    /\ pass' = Recorded(computed, applied.applierCalls)
    /\ UNCHANGED parserVars

\* mutant: the diagnostics list is not handed to buildUnifier
ReplaceWorkingVarsWithTheoryVarsDiagnosticsNotPassed ==
    \E cacheArg \in OptionalCache, diagnosticsArg \in Optional(DiagnosticLists) :
        \E computed \in { PassOf("replaceWorkingVarsWithTheoryVars", uProof, [supplied |-> FALSE]) } :
            \E applied \in { IF Len(computed.workingVars) > 0
                             THEN applyUnifier(computed.unifier, uProof, cacheArg)
                             ELSE NotApplied(uProof, cacheArg) } :
                /\ uProof' = applied.uProof
                /\ formulaToParseNodeCache' =
                      IF cacheArg.supplied THEN applied.formulaToParseNodeCache
                      ELSE formulaToParseNodeCache
                /\ diagnostics' = diagnosticsArg
                /\ pass' = [Recorded(computed, applied.applierCalls) EXCEPT
                                !.diagnosticsBefore = diagnosticsArg]
                /\ UNCHANGED parserVars

\* mutant: the applier is made and run whatever the working variables and the unifier are
ReplaceWorkingVarsWithTheoryVarsAlwaysApplying ==
    \E cacheArg \in OptionalCache, diagnosticsArg \in Optional(DiagnosticLists) :
        \E computed \in { PassOf("replaceWorkingVarsWithTheoryVars", uProof, diagnosticsArg) } :
            \E applied \in { WorkingVarsUnifierApplier(computed.unifier, uProof, cacheArg) } :
                Replaced(computed, applied, cacheArg)

\* replaceWorkingVarsWithTheoryVars(formulaToParseNodeCache?, diagnostics?)
ReplaceWorkingVarsWithTheoryVars ==
    \E cacheArg \in OptionalCache, diagnosticsArg \in Optional(DiagnosticLists) :
        \E computed \in { PassOf("replaceWorkingVarsWithTheoryVars", uProof, diagnosticsArg) } :
            \E applied \in { IF Len(computed.workingVars) > 0
                             THEN applyUnifier(computed.unifier, uProof, cacheArg)
                             ELSE NotApplied(uProof, cacheArg) } :
                Replaced(computed, applied, cacheArg)

\* mutant: the unifier that was built is applied to the proof
AddDiagnosticsForMissingUnusedVarsApplying ==
    \E diagnosticsArg \in { d \in Optional(DiagnosticLists) : d.supplied } :
        \E computed \in { PassOf("addDiagnosticsForMissingUnusedVars", uProof, diagnosticsArg) } :
            \E applied \in { IF Len(computed.workingVars) > 0
                             THEN applyUnifier(computed.unifier, uProof, [supplied |-> FALSE])
                             ELSE NotApplied(uProof, [supplied |-> FALSE]) } :
                /\ uProof' = applied.uProof
                /\ diagnostics' = computed.diagnostics
                /\ pass' = Recorded(computed, applied.applierCalls)
                /\ UNCHANGED << formulaToParseNodeCache, parserVars >>

\* addDiagnosticsForMissingUnusedVars(diagnostics)
AddDiagnosticsForMissingUnusedVars ==
    \E diagnosticsArg \in { d \in Optional(DiagnosticLists) : d.supplied } :
        \E computed \in { PassOf("addDiagnosticsForMissingUnusedVars", uProof, diagnosticsArg) } :
            /\ diagnostics' = computed.diagnostics
            /\ pass' = Recorded(computed, 0)
            /\ UNCHANGED << uProof, formulaToParseNodeCache, parserVars >>

Init == InitParser /\ ReplacerIdle

NextReplacer ==
    \/ ReplaceWorkingVarsWithTheoryVars
    \/ AddDiagnosticsForMissingUnusedVars

SpecReplacer == InitReplacer /\ [][NextReplacer]_vars

-----------------------------------------------------------------------------
(* createParseNodesInANewThread with the Worker replaced by a test double *)

\* labels a result map may hold: s0 is the label of no statement
ResultLabels == { LabelOf(0), LabelOf(1), LabelOf(2) }

\* the trees a result map may hold, as they are after postMessage
ResultParseNodes ==
    { structuredClone(parseString(concatWithSpaces(formula), Grammar(TheoryRules))) :
        formula \in { f \in Formulas : parseString(concatWithSpaces(f), Grammar(TheoryRules)) # Undefined } }

\* result maps of up to two entries
ResultMaps ==
    { << >> }
        \cup { << [key |-> a, value |-> x] >> : a \in ResultLabels, x \in ResultParseNodes }
        \cup { map \in { << [key |-> a, value |-> x], [key |-> b, value |-> y] >> :
                            a \in ResultLabels, b \in ResultLabels,
                            x \in ResultParseNodes, y \in ResultParseNodes } :
                 map[1].key # map[2].key }

\* the test calls the registered handler with a Done message
MockedWorkerEmitsDone ==
    /\ promise = "pending"
    /\ port = << >>
    /\ received = << >>
    /\ \E map \in ResultMaps : port' = << createMessageDone(map) >>
    /\ UNCHANGED << replacerVars, labelToStatementMap, areAllParseNodesComplete, workerPc, workerData, i,
                    labelToParseNodeForThreadMap, formulaToParseNodeForThreadCache, parseCalls,
                    posted, received, promise, waiter, progressCalls, returned >>

NextMocked ==
    \/ CreateParseNodesInANewThread
    \/ MockedWorkerEmitsDone
    \/ OnMessageDone
    \/ AwaitResumes

SpecMocked == Init /\ [][NextMocked]_vars

Next ==
    \/ CreateParseNodesInANewThread
    \/ Worker
    \/ OnMessage
    \/ AwaitResumes
    \/ CreateParseNodesInCurrentThread
    \/ BuildParseNodesSimulated

Spec == Init /\ [][Next]_vars

\* the worker runs, and the event loop of the main thread delivers posted messages
SpecFair == Spec /\ WF_vars(Worker) /\ WF_vars(OnMessage)


-----------------------------------------------------------------------------
(* Properties of the parse node creator *)

DoneIndexes(messages) == { n \in 1..Len(messages) : messages[n].kind = "done" }

WorkerStarted == workerPc # "notStarted"

\* the grammar the worker rebuilds from the rule descriptors it was given
WorkerGrammar == createGrammar(workerData.mmpRulesForThread)

\* the entries, among the first k of the map, whose formula parses
ParsedEntries(map, k, grammar) ==
    { n \in 1..k : parseString(map[n].value, grammar) # Undefined }

\* C1: in a run of the worker thread block exactly one Done message is posted,
\* it carries the result map of the batch, and it is the last message posted:
\* every Progress and Log message precedes it
C1_ExactlyOneDoneAndLast ==
    WorkerStarted =>
        /\ Cardinality(DoneIndexes(posted)) <= 1
        /\ (workerPc = "exited") <=> (DoneIndexes(posted) # {})
        /\ \A n \in DoneIndexes(posted) :
              /\ n = Len(posted)
              /\ posted[n].labelToParseNodeForThreadMap =
                    createLabelToParseNodeForThreadMap(workerData.labelToFormulaMap,
                        workerData.mmpRulesForThread).labelToParseNodeForThreadMap

C1_Witness ==
    /\ workerPc = "exited"
    /\ Len(posted) >= 7
    /\ Len(posted[Len(posted)].labelToParseNodeForThreadMap) >= 2

\* every entry of the map of a Done message that has a statement is assigned to it
Merged(message, statements) ==
    \A n \in 1..Len(message.labelToParseNodeForThreadMap) :
        \A k \in 1..Len(statements) :
            statements[k].Label = message.labelToParseNodeForThreadMap[n].key
                => statements[k].parseNode =
                       convertParseNodeForThread(message.labelToParseNodeForThreadMap[n].value)

C2_ResolvedOnlyAfterDone ==
    (promise = "resolved" \/ areAllParseNodesComplete["newThread"]) =>
        \E n \in DoneIndexes(received) : Merged(received[n], labelToStatementMap["newThread"])

C2_OnlyDoneResolves ==
    (\/ promise' = "resolved" /\ promise # "resolved"
     \/ areAllParseNodesComplete'["newThread"] /\ ~ areAllParseNodesComplete["newThread"])
        => /\ Len(port) > 0
           /\ Head(port).kind = "done"
           /\ received' = Append(received, Head(port))
           /\ Merged(Head(port), labelToStatementMap'["newThread"])

\* C2: in the new-thread variant the promise is resolved and the flag set only
\* after a Done message was received and its trees were assigned to the
\* statements; no Progress or Log message and no other event does it
C2_ResolveOnlyOnDone == [] C2_ResolvedOnlyAfterDone /\ [][C2_OnlyDoneResolves]_vars

C2_Witness ==
    /\ promise = "resolved"
    /\ areAllParseNodesComplete["newThread"]
    /\ \E n \in 1..Len(received) : received[n].kind = "progress"
    /\ \E k \in 1..Len(labelToStatementMap["newThread"]) :
          labelToStatementMap["newThread"][k].parseNode \notin { Undefined, dummyNode }

C3_NoResolveWithoutDone ==
    (promise = "pending" /\ ~ (Len(port) > 0 /\ Head(port).kind = "done"))
        => /\ promise' = "pending"
           /\ areAllParseNodesComplete'["newThread"] = FALSE

\* C3: a started batch runs to completion or never resolves: with the worker
\* running and messages delivered the promise eventually resolves and the flag
\* becomes true; as long as Done is not delivered the promise stays pending
\* and the flag false
C3_CompletesOrNeverResolves ==
    /\ (promise = "pending") ~> (promise = "resolved" /\ areAllParseNodesComplete["newThread"])
    /\ [][C3_NoResolveWithoutDone]_vars

C3_Witness ==
    /\ promise = "resolved"
    /\ areAllParseNodesComplete["newThread"]
    /\ workerPc = "exited"
    /\ Len(received) >= 6

\* C4: once both variants have finished, the statement models are the same and
\* both flags are true
C4_SameResultInBothVariants ==
    (returned["currentThread"] /\ promise = "resolved") =>
        /\ labelToStatementMap["currentThread"] = labelToStatementMap["newThread"]
        /\ areAllParseNodesComplete["currentThread"]
        /\ areAllParseNodesComplete["newThread"]

\* C5: the batch processes every entry; the keys of its result are exactly the
\* labels whose formula parses, each mapped to the parse tree of its formula; an
\* unparsable formula drops its own label only
C5_ResultIsParsableEntries ==
    workerPc \in { "forEach", "logCacheSize", "postDone", "exited" } =>
        LET map == workerData.labelToFormulaMap
        IN  /\ MapKeys(labelToParseNodeForThreadMap) =
                  { map[n].key : n \in ParsedEntries(map, i, WorkerGrammar) }
            /\ \A n \in ParsedEntries(map, i, WorkerGrammar) :
                  MapGet(labelToParseNodeForThreadMap, map[n].key) = parseString(map[n].value, WorkerGrammar)
            /\ workerPc # "forEach" => i = Len(map)
            /\ workerPc = "exited" =>
                  posted[Len(posted)].labelToParseNodeForThreadMap = labelToParseNodeForThreadMap

C5_Witness ==
    /\ workerPc = "exited"
    /\ LET map == workerData.labelToFormulaMap
       IN  \E j, k \in 1..Len(map) :
              /\ j < k
              /\ parseString(map[j].value, WorkerGrammar) = Undefined
              /\ MapHas(labelToParseNodeForThreadMap, map[k].key)

\* the two summary logs, at positions at and at + 1 of messages, report the
\* number of parsed entries and the number of distinct parsed formula texts
ReportedSizes(messages, at, map, grammar) ==
    LET parsed == ParsedEntries(map, Len(map), grammar)
    IN  /\ messages[at] = [kind |-> "log",
              text |-> "labelToParseNodeForThreadMap.size = " \o ToString(Cardinality(parsed))]
        /\ messages[at + 1] = [kind |-> "log",
              text |-> "formulaToParseNodeForThreadCache.size = "
                       \o ToString(Cardinality({ map[n].value : n \in parsed }))]

\* C6: the reported result-map size is the number of entries that parsed, the
\* reported cache size the number of distinct formula texts among them, and
\* cache size <= result-map size <= number of entries
C6_ReportedSizes ==
    /\ workerPc \in { "postDone", "exited" } =>
          /\ ReportedSizes(posted, Len(workerData.labelToFormulaMap) + 3,
                           workerData.labelToFormulaMap, WorkerGrammar)
          /\ Len(formulaToParseNodeForThreadCache) <= Len(labelToParseNodeForThreadMap)
          /\ Len(labelToParseNodeForThreadMap) <= Len(workerData.labelToFormulaMap)
    /\ returned["simulated"] =>
          LET map == createLabelToFormulaMap(labelToStatementMap["simulated"])
          IN  ReportedSizes(progressCalls["simulated"], Len(map) + 1, map, Grammar(TheoryRules))

C6_Witness ==
    /\ workerPc = "exited"
    /\ returned["simulated"]
    /\ Len(formulaToParseNodeForThreadCache) = 1
    /\ Len(labelToParseNodeForThreadMap) = 2

-----------------------------------------------------------------------------
(* Properties of the working variable replacer *)

RECURSIVE Leaves(_)
\* the tokens of a parse node, left to right
Leaves(parseNode) ==
    IF parseNode.class = "MmToken" THEN << parseNode >>
    ELSE IF Len(parseNode.parseNodes) = 0 THEN << >>
    ELSE Leaves(parseNode.parseNodes[1])
            \o Leaves([parseNode EXCEPT !.parseNodes = Tail(parseNode.parseNodes)])

RECURSIVE ProofLeaves(_)
\* the tokens of the parse nodes of the proof steps, in proof order
ProofLeaves(mmpStatements) ==
    IF Len(mmpStatements) = 0 THEN << >>
    ELSE (IF Head(mmpStatements).class = "MmpProofStep" /\ Head(mmpStatements).parseNode # Undefined
          THEN Leaves(Head(mmpStatements).parseNode) ELSE << >>)
         \o ProofLeaves(Tail(mmpStatements))

IsWorkingVarLeaf(leaf) == \E n \in 1..Len(WorkingVarKinds) : WorkingVarKinds[n].key = leaf.value

\* the occurrences of the working variables among the tokens of a proof
WorkingVarLeaves(leaves) == SelectSeq(leaves, IsWorkingVarLeaf)

RegisteredKind(workingVar) ==
    WorkingVarKinds[CHOOSE n \in 1..Len(WorkingVarKinds) : WorkingVarKinds[n].key = workingVar].value

\* the occurrences that are the first of their working variable: first-encounter order
FirstOccurrences(occurrences) ==
    { n \in 1..Len(occurrences) :
        \A k \in 1..(n - 1) : occurrences[k].value # occurrences[n].value }

\* theory variables of the kind that are not among the symbols of the proof
FreeVarsOfKind(kind, symbols) ==
    { n \in 1..Len(uProof.outermostBlock.v) :
        /\ \E e \in Range(TheoryFHyps) : e.key = uProof.outermostBlock.v[n] /\ e.value.Kind = kind
        /\ uProof.outermostBlock.v[n] \notin symbols }

\* the working variable first met at occurrence n finds no unused variable of its kind
UnallocableAt(n, occurrences, symbols) ==
    Cardinality({ k \in FirstOccurrences(occurrences) :
                    /\ k <= n
                    /\ RegisteredKind(occurrences[k].value) = RegisteredKind(occurrences[n].value) })
        > Cardinality(FreeVarsOfKind(RegisteredKind(occurrences[n].value), symbols))

\* the working variables of the proof that find no unused variable of their kind
UnallocableVars(occurrences, symbols) ==
    { occurrences[n].value : n \in { k \in FirstOccurrences(occurrences) :
                                       UnallocableAt(k, occurrences, symbols) } }

ExpectedDiagnostic(leaf) ==
    [severity |-> "Warning",
     message |-> "No unused variable of kind " \o RegisteredKind(leaf.value) \o " found in the theory",
     range |-> [start |-> [line |-> leaf.line, character |-> leaf.column],
                end |-> [line |-> leaf.line, character |-> leaf.column + Len(leaf.value)]],
     code |-> "proofCompleteButWorkingVarsRemainAndNoUnusedTheoryVars"]

RECURSIVE ExpectedDiagnosticsFrom(_, _, _)
\* one diagnostic for every occurrence of an unallocable working variable, grouped
\* by working variable in first-encounter order
ExpectedDiagnosticsFrom(n, occurrences, unallocable) ==
    IF n > Len(occurrences) THEN << >>
    ELSE (IF n \in FirstOccurrences(occurrences) /\ occurrences[n].value \in unallocable
          THEN LET same == SelectSeq(occurrences, LAMBDA l : l.value = occurrences[n].value)
               IN  [ k \in 1..Len(same) |-> ExpectedDiagnostic(same[k]) ]
          ELSE << >>)
         \o ExpectedDiagnosticsFrom(n + 1, occurrences, unallocable)

\* the diagnostics the last call has appended to the list it was given
AppendedDiagnostics ==
    IF diagnostics.supplied
    THEN SubSeq(diagnostics.list, Len(pass.diagnosticsBefore.list) + 1, Len(diagnostics.list))
    ELSE << >>

ReplacementOf(n) == pass.unifier[n].value.parseNodes[1].value

\* the symbols of the proof steps before the pass
SymbolsBefore == LET leaves == ProofLeaves(pass.before) IN { leaves[k].value : k \in 1..Len(leaves) }

\* the working variables that found no unused variable in the pass
UnallocableInPass ==
    UnallocableVars(WorkingVarLeaves(ProofLeaves(pass.before)), SymbolsBefore)

\* C8: in a pass of buildUnifier no theory variable is the replacement of two
\* different working variables
C8_UnifierInjective ==
    \A a, b \in 1..Len(pass.unifier) : a # b => ReplacementOf(a) # ReplacementOf(b)

C8_Witness ==
    \E a, b \in 1..Len(pass.unifier) :
        /\ a # b
        /\ RegisteredKind(pass.unifier[a].key) = RegisteredKind(pass.unifier[b].key)

\* C9: no replacement chosen in a pass is a theory variable that occurs in the
\* parse node of a proof step before the pass; the used variables are seeded with
\* every outermost variable occurring in a step
C9_ReplacementNotInProof ==
    LET inProof == SymbolsBefore
    IN  /\ \A n \in 1..Len(pass.unifier) : ReplacementOf(n) \notin inProof
        /\ Len(pass.workingVars) > 0 =>
              /\ pass.usedVarsBefore = inProof \cap Range(uProof.outermostBlock.v)
              /\ pass.usedVarsBefore \subseteq pass.usedVars

C9_Witness ==
    /\ Len(pass.unifier) > 0
    /\ \E n \in 1..Len(pass.unifier), k \in 1..Len(pass.before) :
          /\ k > 1
          /\ pass.before[k].class = "MmpProofStep"
          /\ pass.before[k].parseNode # Undefined
          /\ \E used \in symbolsSubsetOf(pass.before[k].parseNode, pass.usedVarsBefore) :
                \E e \in Range(TheoryFHyps) :
                    e.key = used /\ e.value.Kind = RegisteredKind(pass.unifier[n].key)

\* what a pass does for the working variables that find no unused variable
DiagnosticsPerOccurrence ==
    LET occurrences == WorkingVarLeaves(ProofLeaves(pass.before))
        unallocable == UnallocableInPass
        appended    == AppendedDiagnostics
    IN  /\ appended = ExpectedDiagnosticsFrom(1, occurrences, unallocable)
        /\ Len(appended) =
              Cardinality({ n \in 1..Len(occurrences) : occurrences[n].value \in unallocable })
        /\ diagnostics.supplied =>
              SubSeq(diagnostics.list, 1, Len(pass.diagnosticsBefore.list)) = pass.diagnosticsBefore.list

NoEntryForUnallocable ==
    LET unallocable == UnallocableInPass
    IN  \A n \in 1..Len(pass.unifier) : pass.unifier[n].key \notin unallocable

\* C10 as stated: a pass of either entry point emits one warning for every
\* occurrence of a working variable that finds no unused variable, anchored at
\* the occurrence, and adds no unifier entry for it; a substituted working
\* variable gets no diagnostic
C10_DiagnosticPerOccurrenceAlways ==
    pass.entryPoint # "none" => (DiagnosticsPerOccurrence /\ NoEntryForUnallocable)

\* C10, amended: the same, for every pass that is given a diagnostics list; a
\* pass that is given none emits nothing, and still adds no unifier entry for
\* an unallocable working variable
C10_DiagnosticPerOccurrenceIfListGiven ==
    pass.entryPoint # "none" =>
        /\ NoEntryForUnallocable
        /\ pass.diagnosticsBefore.supplied => DiagnosticsPerOccurrence
        /\ ~ pass.diagnosticsBefore.supplied => ~ diagnostics.supplied

C10_Witness ==
    /\ pass.entryPoint = "replaceWorkingVarsWithTheoryVars"
    /\ pass.diagnosticsBefore.supplied
    /\ Len(pass.diagnosticsBefore.list) > 0
    /\ Len(pass.unifier) > 0
    /\ Len(AppendedDiagnostics) = 2
    /\ AppendedDiagnostics[1].message = AppendedDiagnostics[2].message
    /\ Cardinality(UnallocableInPass) = 1

-----------------------------------------------------------------------------
(* Allocation order *)

\* the rank of the working variable first met at occurrence n among the working
\* variables of its kind, in first-encounter order
RankAt(n, occurrences) ==
    Cardinality({ k \in FirstOccurrences(occurrences) :
                    /\ k <= n
                    /\ RegisteredKind(occurrences[k].value) = RegisteredKind(occurrences[n].value) })

\* the r-th of a set of positions
NthOf(positions, r) == CHOOSE m \in positions : Cardinality({ j \in positions : j <= m }) = r

\* C11: among the working variables of one kind, in first-encounter order, the
\* i-th receives the i-th theory variable of the kind, in declaration order, that
\* is not used in the proof; with k such variables only the first k encountered
\* are substituted and the others are left unresolved
C11_FirstComeFirstServed ==
    pass.entryPoint # "none" =>
        LET occurrences == WorkingVarLeaves(ProofLeaves(pass.before))
            symbols     == SymbolsBefore
        IN  /\ \A n \in FirstOccurrences(occurrences) :
                  LET free == FreeVarsOfKind(RegisteredKind(occurrences[n].value), symbols)
                      rank == RankAt(n, occurrences)
                  IN  IF rank <= Cardinality(free)
                      THEN /\ MapHas(pass.unifier, occurrences[n].value)
                           /\ MapGet(pass.unifier, occurrences[n].value).parseNodes[1].value
                                 = uProof.outermostBlock.v[NthOf(free, rank)]
                      ELSE ~ MapHas(pass.unifier, occurrences[n].value)
            /\ \A n \in 1..Len(pass.unifier) :
                  \E k \in 1..Len(occurrences) : occurrences[k].value = pass.unifier[n].key

\* &W2 is met before &W1, takes the only free variable, and &W1 stays unresolved
C11_Witness ==
    /\ pass.entryPoint = "replaceWorkingVarsWithTheoryVars"
    /\ Len(pass.workingVars) = 2
    /\ pass.workingVars[1].key = "&W2"
    /\ pass.workingVars[2].key = "&W1"
    /\ MapHas(pass.unifier, "&W2")
    /\ ~ MapHas(pass.unifier, "&W1")

-----------------------------------------------------------------------------
(* Frame of the passes *)

\* the proof steps before the pass hold no working variable
NoWorkingVarBefore == WorkingVarLeaves(ProofLeaves(pass.before)) = << >>

\* C12: for a proof whose parse nodes hold no working variable, both entry
\* points leave the proof unchanged, do not run the applier and append no
\* diagnostic
C12_NoOpWithoutWorkingVars ==
    (pass.entryPoint # "none" /\ NoWorkingVarBefore) =>
        /\ uProof.mmpStatements = pass.before
        /\ pass.applierCalls = 0
        /\ diagnostics = pass.diagnosticsBefore
        /\ Len(pass.unifier) = 0

C12_Witness ==
    /\ pass.entryPoint = "replaceWorkingVarsWithTheoryVars"
    /\ NoWorkingVarBefore
    /\ Len(ProofLeaves(pass.before)) > 0
    /\ pass.diagnosticsBefore.supplied
    /\ Len(uProof.outermostBlock.v) > 0

-----------------------------------------------------------------------------
(* Resolution *)

Kinds == { WorkingVarKinds[n].value : n \in 1..Len(WorkingVarKinds) }

\* the distinct working variables of the kind among the occurrences
WorkingVarsOfKind(kind, occurrences) ==
    { occurrences[n].value : n \in { k \in 1..Len(occurrences) :
                                       RegisteredKind(occurrences[k].value) = kind } }

\* for every kind the theory has at least as many variables not present in the
\* proof as the proof has distinct working variables of the kind
EnoughUnusedVars(occurrences, symbols) ==
    \A kind \in Kinds :
        Cardinality(FreeVarsOfKind(kind, symbols)) >= Cardinality(WorkingVarsOfKind(kind, occurrences))

\* C13: with enough unused variables of every kind, a pass puts every working
\* variable of the proof in the unifier and produces no diagnostic
C13_FullResolution ==
    LET occurrences == WorkingVarLeaves(ProofLeaves(pass.before))
    IN  (pass.entryPoint # "none" /\ EnoughUnusedVars(occurrences, SymbolsBefore)) =>
            /\ \A n \in 1..Len(occurrences) : MapHas(pass.unifier, occurrences[n].value)
            /\ diagnostics = pass.diagnosticsBefore

C13_Witness ==
    LET occurrences == WorkingVarLeaves(ProofLeaves(pass.before))
    IN  /\ pass.entryPoint # "none"
        /\ EnoughUnusedVars(occurrences, SymbolsBefore)
        /\ Cardinality(WorkingVarsOfKind("wff", occurrences)) = 2
        /\ Cardinality(WorkingVarsOfKind("setvar", occurrences)) = 1
        /\ pass.diagnosticsBefore.supplied

-----------------------------------------------------------------------------
(* Entries and diagnostics *)

\* the entry of the working variable maps it to a node built from the floating
\* hypothesis of a theory variable, and that variable is in the used variables
HasEntryFromFHyp(workingVar) ==
    /\ MapHas(pass.unifier, workingVar)
    /\ LET node    == MapGet(pass.unifier, workingVar)
           variable == node.parseNodes[1].value
       IN  /\ \E e \in Range(TheoryFHyps) :
                 /\ e.key = variable
                 /\ node = InternalNode(e.value.Label, e.value.Kind,
                                        << MmToken(variable, 0, 0, RegisteredKind(workingVar)) >>)
           /\ variable \in pass.usedVars
           /\ variable \in Range(uProof.outermostBlock.v)

\* every occurrence of the working variable has its warning among the appended diagnostics
DiagnosedAtEveryOccurrence(internalNodes) ==
    /\ diagnostics.supplied
    /\ \A n \in 1..Len(internalNodes) :
          \E k \in 1..Len(AppendedDiagnostics) :
              AppendedDiagnostics[k] = ExpectedDiagnostic(getTokenFromInternalNode(internalNodes[n]))

\* no occurrence of the working variable has a warning among the appended diagnostics
DiagnosedNowhere(internalNodes) ==
    \A n \in 1..Len(internalNodes), k \in 1..Len(AppendedDiagnostics) :
        AppendedDiagnostics[k].range # range(getTokenFromInternalNode(internalNodes[n]))

\* C14 as stated: every working variable collected from the proof ends the pass
\* with an entry built from the floating hypothesis of a reserved variable, or
\* with its diagnostics at every occurrence, never with neither
C14_EntryOrDiagnosticsAlways ==
    pass.entryPoint # "none" =>
        \A n \in 1..Len(pass.workingVars) :
            \/ HasEntryFromFHyp(pass.workingVars[n].key) /\ DiagnosedNowhere(pass.workingVars[n].value)
            \/ /\ ~ MapHas(pass.unifier, pass.workingVars[n].key)
               /\ DiagnosedAtEveryOccurrence(pass.workingVars[n].value)

\* C14, amended: the same for a pass that is given a diagnostics list; in a pass
\* that is given none a working variable without unused variable ends with neither
C14_EntryOrDiagnosticsIfListGiven ==
    pass.entryPoint # "none" =>
        \A n \in 1..Len(pass.workingVars) :
            \/ HasEntryFromFHyp(pass.workingVars[n].key) /\ DiagnosedNowhere(pass.workingVars[n].value)
            \/ /\ ~ MapHas(pass.unifier, pass.workingVars[n].key)
               /\ pass.diagnosticsBefore.supplied => DiagnosedAtEveryOccurrence(pass.workingVars[n].value)
               /\ ~ pass.diagnosticsBefore.supplied => ~ diagnostics.supplied

C14_Witness ==
    /\ pass.entryPoint = "addDiagnosticsForMissingUnusedVars"
    /\ \E a, b \in 1..Len(pass.workingVars) :
          /\ HasEntryFromFHyp(pass.workingVars[a].key)
          /\ ~ MapHas(pass.unifier, pass.workingVars[b].key)
          /\ Len(pass.workingVars[b].value) = 2
          /\ DiagnosedAtEveryOccurrence(pass.workingVars[b].value)

-----------------------------------------------------------------------------
(* Allocation failures *)

\* the rank of the n-th collected working variable among those of its kind
RankInPass(n) ==
    Cardinality({ k \in 1..n : RegisteredKind(pass.workingVars[k].key)
                                  = RegisteredKind(pass.workingVars[n].key) })

\* an unused variable of its kind is left when the n-th working variable is looked at
UnusedVarLeftFor(n) ==
    RankInPass(n) - Cardinality({ k \in 1..n : /\ RegisteredKind(pass.workingVars[k].key)
                                                    = RegisteredKind(pass.workingVars[n].key)
                                               /\ k < n
                                               /\ ~ MapHas(pass.unifier, pass.workingVars[k].key) })
        <= Cardinality(FreeVarsOfKind(RegisteredKind(pass.workingVars[n].key), SymbolsBefore))

\* C15: every working variable met after one that found no unused variable is
\* still looked at: it is substituted when an unused variable of its kind is
\* left, and gets its warnings otherwise when a list is given
C15_FailureDoesNotStopPass ==
    pass.entryPoint # "none" =>
        \A m, n \in 1..Len(pass.workingVars) :
            (m < n /\ ~ MapHas(pass.unifier, pass.workingVars[m].key)) =>
                IF UnusedVarLeftFor(n)
                THEN MapHas(pass.unifier, pass.workingVars[n].key)
                ELSE pass.diagnosticsBefore.supplied =>
                        DiagnosedAtEveryOccurrence(pass.workingVars[n].value)

\* the first working variable finds nothing and a later one, of another kind, is substituted
C15_Witness ==
    /\ pass.entryPoint # "none"
    /\ Len(pass.workingVars) >= 2
    /\ ~ MapHas(pass.unifier, pass.workingVars[1].key)
    /\ \E n \in 2..Len(pass.workingVars) : MapHas(pass.unifier, pass.workingVars[n].key)

-----------------------------------------------------------------------------
(* What the entry points change *)

\* C16: a call of addDiagnosticsForMissingUnusedVars changes nothing but the
\* diagnostics list it is given: the proof and the formula cache stay as they
\* are and the applier is not run
C16_CheckOnlyChangesOnlyDiagnostics ==
    [][ pass'.entryPoint = "addDiagnosticsForMissingUnusedVars" =>
            /\ uProof' = uProof
            /\ formulaToParseNodeCache' = formulaToParseNodeCache
            /\ pass'.applierCalls = 0
            /\ pass'.before = uProof.mmpStatements
            /\ UNCHANGED parserVars ]_vars

\* a check-only pass has built a unifier and the proof still holds its working variables
C16_Witness ==
    /\ pass.entryPoint = "addDiagnosticsForMissingUnusedVars"
    /\ Len(pass.unifier) > 0
    /\ Len(diagnostics.list) > Len(pass.diagnosticsBefore.list)
    /\ uProof.mmpStatements = pass.before
    /\ WorkingVarLeaves(ProofLeaves(uProof.mmpStatements)) # << >>

\* C17: a call of replaceWorkingVarsWithTheoryVars runs the applier at most
\* once, and only for a non-empty unifier; with an empty unifier the proof and
\* the formula cache stay as they are; the cache changes only in a call that
\* runs the applier
C17_ApplierOnlyForNonEmptyUnifier ==
    [][ pass'.entryPoint = "replaceWorkingVarsWithTheoryVars" =>
            /\ pass'.applierCalls <= 1
            /\ pass'.applierCalls = 1 <=> Len(pass'.unifier) > 0
            /\ Len(pass'.unifier) = 0 =>
                  /\ uProof' = uProof
                  /\ formulaToParseNodeCache' = formulaToParseNodeCache
            /\ formulaToParseNodeCache' # formulaToParseNodeCache => pass'.applierCalls = 1 ]_vars

\* a pass finds working variables, none of which can be allocated, and the cache
\* filled by an earlier pass is as it was
C17_Witness ==
    /\ pass.entryPoint = "replaceWorkingVarsWithTheoryVars"
    /\ Len(pass.workingVars) > 0
    /\ Len(pass.unifier) = 0
    /\ pass.applierCalls = 0
    /\ Len(formulaToParseNodeCache) > 0

-----------------------------------------------------------------------------
(* Kinds *)

\* the kind the theory gives to a declared variable
TheoryKind(variable) ==
    (CHOOSE e \in Range(TheoryFHyps) : e.key = variable).value.Kind

\* C18: every entry of the unifier replaces a working variable by a declared
\* theory variable of the kind registered for the working variable
C18_SameKind ==
    \A n \in 1..Len(pass.unifier) :
        /\ ReplacementOf(n) \in Range(uProof.outermostBlock.v)
        /\ TheoryKind(ReplacementOf(n)) = RegisteredKind(pass.unifier[n].key)
        /\ pass.unifier[n].value.kind = RegisteredKind(pass.unifier[n].key)

\* a wff and a setvar working variable are both substituted, the setvar variable
\* being declared first
C18_Witness ==
    /\ Len(uProof.outermostBlock.v) > 1
    /\ TheoryKind(uProof.outermostBlock.v[1]) = "setvar"
    /\ \E a, b \in 1..Len(pass.unifier) :
          /\ RegisteredKind(pass.unifier[a].key) = "wff"
          /\ RegisteredKind(pass.unifier[b].key) = "setvar"

-----------------------------------------------------------------------------
(* Events of a batch *)

\* the Progress events of a batch over count entries
ProgressEvents(count) == [ k \in 1..count |-> createMessageProgress(k - 1, count) ]

IsSizeLog(message, what, count) ==
    message \in { createMessageLog(what \o ".size = " \o ToString(size)) : size \in 0..count }

\* the events of a whole batch: one Progress per entry, then the two Logs, and no Done
WholeBatch(events, count) ==
    /\ Len(events) = count + 2
    /\ SubSeq(events, 1, count) = ProgressEvents(count)
    /\ \A a, b \in 1..count : a < b => events[a].index < events[b].index
    /\ IsSizeLog(events[count + 1], "labelToParseNodeForThreadMap", count)
    /\ IsSizeLog(events[count + 2], "formulaToParseNodeForThreadCache", count)
    /\ \A n \in 1..Len(events) : events[n].kind # "done"

\* what the worker has posted from inside createLabelToParseNodeForThreadMap
WorkerBatchEvents ==
    SubSeq(posted, 3, IF workerPc = "exited" THEN Len(posted) - 1 ELSE Len(posted))

\* C19: a batch over N entries reports N Progress events, one per entry in
\* the order of the map, with indices 0..N-1 and count N, then the two Logs
\* (size of the result map, size of the cache), and no Done
C19_BatchEvents ==
    /\ workerPc = "forEach" =>
          WorkerBatchEvents = SubSeq(ProgressEvents(Len(workerData.labelToFormulaMap)), 1, i)
    /\ workerPc = "logCacheSize" =>
          /\ SubSeq(WorkerBatchEvents, 1, Len(workerData.labelToFormulaMap))
                = ProgressEvents(Len(workerData.labelToFormulaMap))
          /\ Len(WorkerBatchEvents) = Len(workerData.labelToFormulaMap) + 1
    /\ workerPc \in { "postDone", "exited" } =>
          WholeBatch(WorkerBatchEvents, Len(workerData.labelToFormulaMap))
    /\ \A run \in { "currentThread", "simulated" } :
          IF returned[run]
          THEN WholeBatch(progressCalls[run], Len(createLabelToFormulaMap(labelToStatementMap[run])))
          ELSE progressCalls[run] = << >>

C19_Witness ==
    /\ returned["currentThread"]
    /\ Len(progressCalls["currentThread"]) = 4
    /\ workerPc = "postDone"
    /\ Len(workerData.labelToFormulaMap) = 2
    /\ Len(labelToParseNodeForThreadMap) = 1

-----------------------------------------------------------------------------
(* Merge of a result map *)

\* the statements before the merge: no step of the mocked run changes those of the simulated run
StatementsBefore == labelToStatementMap["simulated"]

\* the last entry of the map for the label
LastEntryFor(map, label) ==
    map[CHOOSE n \in 1..Len(map) : map[n].key = label /\ \A k \in (n + 1)..Len(map) : map[k].key # label]

\* C20: addParseNodes gives each tree to the statement of its label, skips a
\* label that has no statement and goes on with the other labels, and leaves
\* every statement whose label is not in the map as it was
C20_MergeSkipsMissingStatements ==
    \A n \in 1..Len(received) :
        isDone(received[n]) =>
            LET map == received[n].labelToParseNodeForThreadMap
                after == labelToStatementMap["newThread"]
            IN  /\ promise = "resolved"
                /\ areAllParseNodesComplete["newThread"]
                /\ Len(after) = Len(StatementsBefore)
                /\ \A k \in 1..Len(after) :
                      IF after[k].Label \in MapKeys(map)
                      THEN after[k] = setParseNode(StatementsBefore[k],
                                convertParseNodeForThread(LastEntryFor(map, after[k].Label).value))
                      ELSE after[k] = StatementsBefore[k]

\* the first label of the map has no statement, the tree of the second is in its statement
C20_Witness ==
    /\ Len(received) = 1
    /\ isDone(received[1])
    /\ LET map == received[1].labelToParseNodeForThreadMap
       IN  /\ Len(map) = 2
           /\ StatementIndex(labelToStatementMap["newThread"], map[1].key) = {}
           /\ \E k \in StatementIndex(labelToStatementMap["newThread"], map[2].key) :
                 /\ labelToStatementMap["newThread"][k].parseNode = convertParseNodeForThread(map[2].value)
                 /\ StatementsBefore[k].parseNode # labelToStatementMap["newThread"][k].parseNode
           /\ Len(labelToStatementMap["newThread"]) = 2

-----------------------------------------------------------------------------
(* Messages passed to the progress callback, new-thread variant *)

\* the messages as the initiator receives them
SerializedAll(messages) == [ n \in 1..Len(messages) |-> Serialized(messages[n]) ]

NotDone(message) == ~ isDone(message)

\* the log of the initiator before the worker is made
MainThreadLog ==
    createMessageLog("I am the Main thread!!!!!!!: labelToFormulaMap.size = "
                     \o ToString(Len(workerData.labelToFormulaMap)))

\* C21: with in-order delivery the progress callback gets every Progress and
\* Log message of the worker once, in the order the worker posted them, all of
\* them before the promise resolves, and never gets the Done message
C21_CallbackGetsWorkerMessagesInOrder ==
    WorkerStarted =>
        /\ received = SubSeq(SerializedAll(posted), 1, Len(received))
        /\ progressCalls["newThread"] =
              << MainThreadLog >>
                 \o SelectSeq(received, NotDone)
                 \o (IF promise = "resolved"
                     THEN << createMessageLog("I am back to the Main thread!!!!!!!") >>
                     ELSE << >>)
        /\ \A n \in 1..Len(progressCalls["newThread"]) : NotDone(progressCalls["newThread"][n])
        /\ promise = "resolved" =>
              /\ Len(received) = Len(posted)
              /\ SelectSeq(received, NotDone) = SelectSeq(posted, NotDone)

C21_Witness ==
    /\ promise = "resolved"
    /\ Len(workerData.labelToFormulaMap) = 2
    /\ Len(progressCalls["newThread"]) = 8
    /\ progressCalls["newThread"][4].kind = "progress"
    /\ progressCalls["newThread"][6].kind = "log"

\* C22: in every state in which the code that awaits the promise has resumed,
\* the flag of the new-thread variant is true
C22_ReleasedOnlyWithFlag ==
    waiter = "released" => areAllParseNodesComplete["newThread"]

C22_Witness ==
    /\ waiter = "released"
    /\ areAllParseNodesComplete["newThread"]
    /\ Len(labelToStatementMap["newThread"]) > 0

-----------------------------------------------------------------------------
(* Parser invocations of a batch *)

\* how many of the first k elements of the sequence hold the property
CountOf(sequence, k, Holds(_)) == Cardinality({ n \in 1..k : Holds(sequence[n]) })

\* the formula text of the label in the map of the batch
FormulaOf(label) == MapGet(workerData.labelToFormulaMap, label)

\* C23: after i entries of the batch the parser has been invoked once for every
\* distinct formula text that parses, and once per entry for a text that does
\* not parse; entries with the same text have the same tree
C23_ParsedOncePerFormula ==
    workerPc \in { "forEach", "logCacheSize", "postDone", "exited" } =>
        LET map == workerData.labelToFormulaMap
        IN  /\ \A n \in 1..i :
                  CountOf(parseCalls, Len(parseCalls), LAMBDA call : call = map[n].value)
                     = IF parseString(map[n].value, WorkerGrammar) # Undefined
                       THEN 1
                       ELSE CountOf(map, i, LAMBDA entry : entry.value = map[n].value)
            /\ \A k \in 1..Len(parseCalls) : \E n \in 1..i : map[n].value = parseCalls[k]
            /\ \A a, b \in 1..Len(labelToParseNodeForThreadMap) :
                  FormulaOf(labelToParseNodeForThreadMap[a].key)
                        = FormulaOf(labelToParseNodeForThreadMap[b].key)
                     => labelToParseNodeForThreadMap[a].value = labelToParseNodeForThreadMap[b].value
            /\ \A n \in 1..Len(formulaToParseNodeForThreadCache) :
                  formulaToParseNodeForThreadCache[n].value
                     = parseString(formulaToParseNodeForThreadCache[n].key, WorkerGrammar)

\* two entries carry the same text, which parses: one parser invocation, two trees
C23_Witness ==
    /\ workerPc = "exited"
    /\ Len(workerData.labelToFormulaMap) = 2
    /\ workerData.labelToFormulaMap[1].value = workerData.labelToFormulaMap[2].value
    /\ Len(labelToParseNodeForThreadMap) = 2
    /\ Len(parseCalls) = 1

\* two entries carry the same text, which does not parse: it is parsed twice
C23_WitnessNotCached ==
    /\ workerPc = "exited"
    /\ Len(workerData.labelToFormulaMap) = 2
    /\ workerData.labelToFormulaMap[1].value = workerData.labelToFormulaMap[2].value
    /\ Len(labelToParseNodeForThreadMap) = 0
    /\ Len(parseCalls) = 2

-----------------------------------------------------------------------------
(* A pass after an apply pass *)

\* the ranges of the diagnostics the last pass has appended
DiagnosedRanges == { AppendedDiagnostics[n].range : n \in 1..Len(AppendedDiagnostics) }

\* C24 as stated: a pass that follows an apply pass builds an empty unifier and
\* produces diagnostics for the same occurrences as the apply pass did
C24_SecondPassSameDiagnosticsAlways ==
    [][ pass.entryPoint = "replaceWorkingVarsWithTheoryVars" =>
            /\ Len(pass'.unifier) = 0
            /\ DiagnosedRanges' = DiagnosedRanges ]_vars

\* C24, amended: a pass that follows an apply pass builds an empty unifier, the
\* variables the apply pass allocated being in the proof and so in the used
\* variables; when both passes are given a diagnostics list, the second produces
\* diagnostics for the same occurrences as the first
C24_SecondPassSameDiagnosticsIfListsGiven ==
    [][ pass.entryPoint = "replaceWorkingVarsWithTheoryVars" =>
            /\ Len(pass'.unifier) = 0
            /\ pass'.applierCalls = 0
            /\ Len(pass'.workingVars) > 0 =>
                  \A n \in 1..Len(pass.unifier) : ReplacementOf(n) \in pass'.usedVarsBefore
            /\ (pass.diagnosticsBefore.supplied /\ pass'.diagnosticsBefore.supplied) =>
                  DiagnosedRanges' = DiagnosedRanges ]_vars

\* a check-only pass on a proof that holds a variable put there by an apply pass
\* diagnoses the working variables that are left
C24_Witness ==
    /\ pass.entryPoint = "addDiagnosticsForMissingUnusedVars"
    /\ \E n \in 1..Len(ProofLeaves(pass.before)) : ProofLeaves(pass.before)[n].line = 0
    /\ Len(pass.unifier) = 0
    /\ Len(AppendedDiagnostics) > 0
    /\ Len(pass.diagnosticsBefore.list) > 0

-----------------------------------------------------------------------------
(* Check-only, then apply, on the same proof *)

\* the ranges of the working variables the proof holds
WorkingVarRanges(mmpStatements) ==
    LET occurrences == WorkingVarLeaves(ProofLeaves(mmpStatements))
    IN  { range(occurrences[n]) : n \in 1..Len(occurrences) }

\* C25: an apply pass that follows a check-only pass, both with a diagnostics
\* list, works on the proof the check-only pass has seen and appends the same
\* diagnostics in the same order; the working variables it leaves in the proof
\* are those the check-only pass has diagnosed
C25_CheckOnlyAgreesWithApply ==
    [][ (/\ pass.entryPoint = "addDiagnosticsForMissingUnusedVars"
         /\ pass'.entryPoint = "replaceWorkingVarsWithTheoryVars"
         /\ pass'.diagnosticsBefore.supplied) =>
            /\ pass'.before = pass.before
            /\ AppendedDiagnostics' = AppendedDiagnostics
            /\ AppendedDiagnostics' =
                  ExpectedDiagnosticsFrom(1, WorkingVarLeaves(ProofLeaves(pass.before)), UnallocableInPass)
            /\ pass'.unifier = pass.unifier
            /\ WorkingVarRanges(uProof'.mmpStatements) = DiagnosedRanges ]_vars

\* an apply pass with a list substitutes a working variable and diagnoses
\* another at its two occurrences, which stay in the proof
C25_Witness ==
    /\ pass.entryPoint = "replaceWorkingVarsWithTheoryVars"
    /\ pass.diagnosticsBefore.supplied
    /\ pass.applierCalls = 1
    /\ Len(AppendedDiagnostics) = 2
    /\ WorkingVarRanges(uProof.mmpStatements) = DiagnosedRanges
    /\ Cardinality(DiagnosedRanges) = 2

====
